---- MODULE Spec2Model ----
(***************************************************************************)
(* Model of the request engine of go-circonus (src/client.go): Client.send *)
(* with its retry goroutine and the shared results channel, and            *)
(* Client.tryRequest with the response classification.                     *)
(*                                                                         *)
(* Time is discrete.  One tick is one default_retry_interval (a second);   *)
(* Client.Timeout is counted in the same unit.                             *)
(***************************************************************************)
EXTENDS Integers, Sequences, FiniteSets, TLC

(* ------------------------------ bounds --------------------------------- *)

\* number of application goroutines that call send on the one Client
NumCalls == 2
\* Client.Retries is configured in -1 .. MaxRetries
MaxRetries == 2
\* Client.Timeout is configured in 0 .. MaxTimeout ticks (0: no timeout)
MaxTimeout == 2

\* the longest time the remote takes to answer when no deadline cuts the
\* attempt short: longer than every deadline that can be configured
MaxLatency == MaxTimeout + 1

Calls == 1 .. NumCalls

(* --------------------------- program constants ------------------------- *)

\* default_retry_interval, in ticks
default_retry_interval == 1

(* ------------------------------ values --------------------------------- *)

\* Go's nil, for interface{} values and for errors
NIL == [type |-> "nil"]

RateLimitError == [type |-> "RateLimitError"]
RateLimitExceededError == [type |-> "RateLimitExceededError"]
TokenNotValidatedError == [type |-> "TokenNotValidatedError"]
AccessDeniedError == [type |-> "AccessDeniedError"]
EmptyResponseError == [type |-> "EmptyResponseError"]
ResourceNotFoundError(endpoint) == [type |-> "ResourceNotFoundError", Endpoint |-> endpoint]
MalformedResponseError(reason) == [type |-> "MalformedResponseError", Reason |-> reason]
RequestDataError(reason) == [type |-> "RequestDataError", Reason |-> reason]

\* errors of net/http that the code passes through unchanged
\* http.NewRequest failing on the method or the URL
NewRequestError == [type |-> "url.Error", Op |-> "parse"]
\* http.Client.Do failing on the transport (connection refused, reset, ...)
TransportError == [type |-> "url.Error", Op |-> "transport"]
\* http.Client.Do giving up because http.Client.Timeout has elapsed
TimeoutError == [type |-> "url.Error", Op |-> "timeout"]

(* ----------------------------- requests -------------------------------- *)

\* request.Data: nil, a value json.Marshal encodes, a value it rejects
\* request.Resource: a path that parses as a URL, one that does not
Requests ==
    { [Method |-> "GET",  Resource |-> "/check", Data |-> "nil"],
      [Method |-> "POST", Resource |-> "/check", Data |-> "encodable"],
      [Method |-> "POST", Resource |-> "/check", Data |-> "unencodable"],
      [Method |-> "GET",  Resource |-> "/%zz",   Data |-> "nil"] }

\* json.Marshal(r.Data) succeeds
Marshals(data) == data # "unencodable"

\* http.NewRequest(r.Method, c.host + c.path + r.Resource, ...) succeeds
ParsesAsURL(resource) == resource # "/%zz"

(* ----------------------------- responses ------------------------------- *)

Statuses == {200, 401, 403, 404, 429, 500}

\* bodies of the test server: nothing, white space only (respond writes the
\* body with Fprintln, so the empty body arrives as a newline), two JSON
\* objects, text that is not JSON; and a JSON object followed by other text
Bodies == {"", " ", "successJson", "circonusErrorJson", "malformedJson", "successJson+text"}

\* nothing is left of the body after trimming white space
Blank(body) == body \in {"", " "}

\* the body as a whole is a JSON document
IsJSON(body) == body \in {"successJson", "circonusErrorJson"}

\* json.Decoder.Decode reads the first JSON value of the stream and stops at
\* its end: what follows the closing brace is not looked at
FirstValue(body) == IF body = "successJson+text" THEN "successJson" ELSE body

\* json.Decoder.Decode returns no error
Decodes(body) == IsJSON(FirstValue(body))

\* the value json.Decoder.Decode(&response) stores in an interface{}
DecodedValue(body) == [type |-> "json", doc |-> FirstValue(body)]

\* mutant: every decoding failure is reported as the end of the input
DecodeErrorAlwaysEOF(body) == "EOF"

\* the reason json.Decoder.Decode reports for a body it cannot decode
DecodeError(body) == IF Blank(body) THEN "EOF" ELSE "invalid character"

\* the string the first JSON object of the body holds under a key, the empty
\* string when it has no such key (createCirconusError, successJson)
JSONField(body, key) ==
    IF FirstValue(body) = "circonusErrorJson"
    THEN CASE key = "code" -> "1234"
           [] key = "explanation" -> "Intential error"
           [] key = "message" -> "Test-triggered error"
           [] key = "reference" -> "code-1234"
           [] key = "tag" -> "id-abcd"
           [] key = "server" -> "test"
           [] OTHER -> ""
    ELSE ""

\* mutant: only the explanation of the service error is kept
CirconusErrorExplanationOnly(body) ==
    [type |-> "CirconusError", Code |-> "", Explanation |-> JSONField(body, "explanation"),
     Message |-> "", Reference |-> "", Tag |-> "", Server |-> ""]

\* json.Decoder.Decode(&errorResult): keys of the object that are fields of
\* CirconusError are stored, the others are ignored
CirconusError(body) ==
    IF FirstValue(body) = "circonusErrorJson"
    THEN [type |-> "CirconusError", Code |-> "1234", Explanation |-> "Intential error",
          Message |-> "Test-triggered error", Reference |-> "code-1234",
          Tag |-> "id-abcd", Server |-> "test"]
    ELSE [type |-> "CirconusError", Code |-> "", Explanation |-> "",
          Message |-> "", Reference |-> "", Tag |-> "", Server |-> ""]

\* every status with every body
ExecResponses == { [status |-> st, body |-> b] : st \in Statuses, b \in Bodies }

\* what the remote may answer to an attempt of a send call
RemoteResponses ==
    { [status |-> s, body |-> b] : s \in {200, 500}, b \in Bodies }
    \cup { [status |-> s, body |-> "malformedJson"] : s \in {401, 403, 404} }
    \cup { [status |-> 429, body |-> "circonusErrorJson"] }

(* ---------------------------- tryRequest -------------------------------- *)

\* a (value, error) pair as a Go function returns it, and the result struct
Pair(v, e) == [Response |-> v, Error |-> e]

\* tryRequest up to the point where the request is handed to the HTTP
\* client: the error it returns without any network call, or NIL
BuildError(r) ==
    IF r.Data # "nil" /\ ~Marshals(r.Data)
    THEN RequestDataError("json: unsupported type")
    ELSE IF ~ParsesAsURL(r.Resource)
         THEN NewRequestError
         ELSE NIL

\* the statuses the switch of tryRequest returns an error for
StatusOnly(status) == status > 399 /\ status \in {401, 403, 404, 429}

\* mutant: a body that cannot be decoded is reported together with the value
\* decoded so far
ClassifyValueWithError(r, resp) ==
    IF resp.status > 399
    THEN CASE resp.status = 401 -> Pair(NIL, TokenNotValidatedError)
           [] resp.status = 403 -> Pair(NIL, AccessDeniedError)
           [] resp.status = 404 -> Pair(NIL, ResourceNotFoundError(r.Resource))
           [] resp.status = 429 -> Pair(NIL, RateLimitError)
           [] OTHER ->
                IF Decodes(resp.body)
                THEN Pair(NIL, CirconusError(resp.body))
                ELSE Pair(NIL, MalformedResponseError(DecodeError(resp.body)))
    ELSE IF Decodes(resp.body)
         THEN Pair(DecodedValue(resp.body), NIL)
         ELSE IF DecodeError(resp.body) = "EOF"
              THEN Pair(NIL, EmptyResponseError)
              ELSE Pair(DecodedValue(resp.body),
                        MalformedResponseError(DecodeError(resp.body)))

\* mutant: the classification of the earlier version of tryRequest, which has
\* no case for 401 and 403
ClassifyNoAuthCases(r, resp) ==
    IF resp.status > 399
    THEN CASE resp.status = 404 -> Pair(NIL, ResourceNotFoundError(r.Resource))
           [] resp.status = 429 -> Pair(NIL, RateLimitError)
           [] OTHER ->
                IF Decodes(resp.body)
                THEN Pair(NIL, CirconusError(resp.body))
                ELSE Pair(NIL, MalformedResponseError(DecodeError(resp.body)))
    ELSE IF Decodes(resp.body)
         THEN Pair(DecodedValue(resp.body), NIL)
         ELSE IF DecodeError(resp.body) = "EOF"
              THEN Pair(NIL, EmptyResponseError)
              ELSE Pair(NIL, MalformedResponseError(DecodeError(resp.body)))

\* tryRequest from the response on: the status switch, then the decoding
Classify(r, resp) ==
    IF resp.status > 399
    THEN CASE resp.status = 401 -> Pair(NIL, TokenNotValidatedError)
           [] resp.status = 403 -> Pair(NIL, AccessDeniedError)
           [] resp.status = 404 -> Pair(NIL, ResourceNotFoundError(r.Resource))
           [] resp.status = 429 -> Pair(NIL, RateLimitError)
           [] OTHER ->
                IF Decodes(resp.body)
                THEN Pair(NIL, CirconusError(resp.body))
                ELSE Pair(NIL, MalformedResponseError(DecodeError(resp.body)))
    ELSE IF Decodes(resp.body)
         THEN Pair(DecodedValue(resp.body), NIL)
         ELSE IF DecodeError(resp.body) = "EOF"
              THEN Pair(NIL, EmptyResponseError)
              ELSE Pair(NIL, MalformedResponseError(DecodeError(resp.body)))

(* ------------------------------- state --------------------------------- *)

VARIABLES
    Retries,     \* Client.Retries
    Timeout,     \* Client.Timeout, in ticks
    httpclient,  \* Client.httpclient: NIL or the http.Client send created
    cpc,         \* per call: where the caller of send is
    gpc,         \* per call: where the retry goroutine of the call is
    req,         \* per call: the request passed to send
    i,           \* per call: the loop counter of the retry goroutine
    res,         \* per call: send's variable res, written by the goroutine
    err,         \* per call: send's variable err, written by the goroutine
    ret,         \* per call: what send returned
    answers,     \* per call: what each attempt of the call met, in order
    t_att,       \* per call: time the attempt in flight has been running
    t_delay,     \* per call: time waited on time.Tick so far
    t_call,      \* per call: time since send was called, while its goroutine runs
                 \* (counted up to one tick past Timeout)
    delivered,   \* per call: results the retry goroutine has sent on c.results
    returns,     \* per call: times send has returned
    results,     \* Client.results: the channel of NewClient, or the nil channel
    flying,      \* per call: attempts handed to http.Client.Do that have not returned
    app,         \* Client.app
    token,       \* Client.token
    transport,   \* Client.transport
    header,      \* per call: req.Header of the request last handed to http.Client.Do
    handling,    \* tryRequest from the response on: the response, how far, the outcome
    epc,         \* executeRequest: where its caller is
    wpc,         \* executeRequest: where the goroutine it started is
    echannel,    \* executeRequest: the buffer of the channel echannel (capacity 1)
    ctxdone,     \* executeRequest: the channel ctx.Done() is closed
    cancelled,   \* executeRequest: tr.CancelRequest(req) has been called
    dores,       \* executeRequest: what client.Do(req) returned to the goroutine
    eret,        \* executeRequest: the error it returns
    first        \* executeRequest: which came first, the result of the goroutine
                 \* on echannel or the deadline of the context

config == <<Retries, Timeout, results, app, token, transport>>
timers == <<t_att, t_delay, t_call>>
exec == <<epc, wpc, echannel, ctxdone, cancelled, dores, eret, first>>
call == <<httpclient, cpc, gpc, req, i, res, err, ret, answers, t_att, t_delay, t_call,
          delivered, returns, flying, header>>
vars == <<Retries, Timeout, httpclient, cpc, gpc, req, i, res, err, ret,
          answers, t_att, t_delay, t_call, delivered, returns, results, flying,
          app, token, transport, header,
          handling, epc, wpc, echannel, ctxdone, cancelled, dores, eret, first>>

\* what an attempt met: no network call at all, an answer of the remote
\* that came after t ticks, a failure of the transport, the deadline
NoNetwork == [kind |-> "none"]
Answered(resp, t) == [kind |-> "response", status |-> resp.status, body |-> resp.body,
                      after |-> t]
Failed == [kind |-> "transport"]
TimedOut == [kind |-> "timeout"]

\* The Client after NewClient, with the exported fields Retries and Timeout
\* set by the application before the first request (as createClient of
\* client_test.go sets Timeout).
Init ==
    /\ Retries \in -1 .. MaxRetries
    /\ Timeout \in 0 .. MaxTimeout
    /\ results = "chan"
    /\ app = "sampleapp"
    /\ token = "abc123"
    /\ transport = "Transport{}"
    /\ httpclient = NIL
    /\ cpc = [c \in Calls |-> "idle"]
    /\ gpc = [c \in Calls |-> "none"]
    /\ req = [c \in Calls |-> NIL]
    /\ i = [c \in Calls |-> 0]
    /\ res = [c \in Calls |-> NIL]
    /\ err = [c \in Calls |-> NIL]
    /\ ret = [c \in Calls |-> NIL]
    /\ answers = [c \in Calls |-> << >>]
    /\ t_att = [c \in Calls |-> 0]
    /\ t_delay = [c \in Calls |-> 0]
    /\ t_call = [c \in Calls |-> 0]
    /\ delivered = [c \in Calls |-> 0]
    /\ returns = [c \in Calls |-> 0]
    /\ flying = [c \in Calls |-> 0]
    /\ header = [c \in Calls |-> NIL]
    /\ handling = [pc |-> "none"]
    /\ epc = "idle"
    /\ wpc = "none"
    /\ echannel = << >>
    /\ ctxdone = FALSE
    /\ cancelled = FALSE
    /\ dores = NIL
    /\ eret = NIL
    /\ first = "none"

\* The zero value of Client (var c Client, or Client{}): every field has the
\* zero value of its type, the channel results is nil.
InitZero ==
    /\ Retries = 0
    /\ Timeout = 0
    /\ results = "nil"
    /\ app = ""
    /\ token = ""
    /\ transport = "nil"
    /\ httpclient = NIL
    /\ cpc = [c \in Calls |-> "idle"]
    /\ gpc = [c \in Calls |-> "none"]
    /\ req = [c \in Calls |-> NIL]
    /\ i = [c \in Calls |-> 0]
    /\ res = [c \in Calls |-> NIL]
    /\ err = [c \in Calls |-> NIL]
    /\ ret = [c \in Calls |-> NIL]
    /\ answers = [c \in Calls |-> << >>]
    /\ t_att = [c \in Calls |-> 0]
    /\ t_delay = [c \in Calls |-> 0]
    /\ t_call = [c \in Calls |-> 0]
    /\ delivered = [c \in Calls |-> 0]
    /\ returns = [c \in Calls |-> 0]
    /\ flying = [c \in Calls |-> 0]
    /\ header = [c \in Calls |-> NIL]
    /\ handling = [pc |-> "none"]
    /\ epc = "idle"
    /\ wpc = "none"
    /\ echannel = << >>
    /\ ctxdone = FALSE
    /\ cancelled = FALSE
    /\ dores = NIL
    /\ eret = NIL
    /\ first = "none"

\* a Client of either construction
InitAny == Init \/ InitZero

(* ----------------------------- Client.send ------------------------------ *)

\* mutant: the http.Client is created without the Client's Timeout
NewHttpClientNoTimeout == [Timeout |-> 0, Transport |-> transport]

\* mutant: a Timeout of zero is passed on as the shortest deadline
NewHttpClientZeroExpires ==
    [Timeout |-> IF Timeout = 0 THEN 1 ELSE Timeout, Transport |-> transport]

\* the http.Client send creates when the Client has none
NewHttpClient == [Timeout |-> Timeout, Transport |-> transport]

\* mutant: the loop runs once more
LoopCondOneMore(iv) == iv <= Retries

\* the condition of the retry loop: for i := 0; i < c.Retries; i++
LoopCond(iv) == iv < Retries

\* mutant: the last iteration is taken to be the one after the last
LastIterationOffByOne(iv) == iv = Retries

\* if i == c.Retries - 1
LastIteration(iv) == iv = Retries - 1

\* mutant: on an error that is not retried the goroutine ends without sending
\* a result
AfterAttemptErrorDropped(e) ==
    IF e = RateLimitError THEN "delay" ELSE IF e # NIL THEN "done" ELSE "deliver"

\* mutant: every error is retried
AfterAttemptRetryAll(e) == IF e # NIL THEN "delay" ELSE "deliver"

\* mutant: the timeout error is retried like the rate limit
AfterAttemptRetryTimeout(e) ==
    IF e \in {RateLimitError, [type |-> "url.Error", Op |-> "timeout"]}
    THEN "delay" ELSE "deliver"

\* where the loop body goes once tryRequest has returned e: to the wait on
\* time.Tick for RateLimitError, out of the loop otherwise (the break of the
\* default case leaves the switch, the break after it leaves the loop)
AfterAttempt(e) == IF e = RateLimitError THEN "delay" ELSE "deliver"

\* the result the goroutine sends on the channel
ChannelResult(g) == [Response |-> res[g], Error |-> err[g]]

\* mutant: the goroutine sends its result again
AfterChannelSendAgain == "deliver"

\* where the goroutine is once its send on the channel has been received
AfterChannelSend == "done"

\* mutant: the access token is not sent
RequestHeaderNoToken ==
    [Accept |-> "application/json", ContentType |-> "application/json",
     XCirconusAppName |-> app]

\* the headers tryRequest sets on the request it has created
RequestHeader ==
    [Accept |-> "application/json", ContentType |-> "application/json",
     XCirconusAppName |-> app, XCirconusAuthToken |-> token]

\* mutant: the loop goes on without waiting for the attempt to return
AfterDoNoWait == "loop"

\* where the goroutine is once tryRequest has handed the request to
\* http.Client.Do: in the call, until Do returns
AfterDo == "inflight"

\* mutant: the deadline is taken from the Timeout the Client has now
DeadlinePassedClientTimeout(c) == Timeout # 0 /\ t_att[c] >= Timeout

\* the deadline of the attempt in flight has passed (http.Client.Timeout,
\* zero meaning no timeout)
DeadlinePassed(c) == httpclient.Timeout # 0 /\ t_att[c] >= httpclient.Timeout

\* send up to the wait on the channel: the http.Client is created if the
\* Client has none, the retry goroutine is started.  An application
\* goroutine calls send again when its last call has returned (and, to keep
\* one retry goroutine per caller in the model, when the goroutine of that
\* call has finished); the per-call variables then describe the new call.
send(c, r) ==
    /\ cpc[c] \in {"idle", "returned"}
    /\ gpc[c] \in {"none", "done"}
    /\ cpc' = [cpc EXCEPT ![c] = "waiting"]
    /\ httpclient' = IF httpclient = NIL THEN NewHttpClient ELSE httpclient
    /\ req' = [req EXCEPT ![c] = r]
    /\ gpc' = [gpc EXCEPT ![c] = "loop"]
    /\ i' = [i EXCEPT ![c] = 0]
    /\ res' = [res EXCEPT ![c] = NIL]
    /\ err' = [err EXCEPT ![c] = NIL]
    /\ ret' = [ret EXCEPT ![c] = NIL]
    /\ answers' = [answers EXCEPT ![c] = << >>]
    /\ t_call' = [t_call EXCEPT ![c] = 0]
    /\ delivered' = [delivered EXCEPT ![c] = 0]
    /\ returns' = [returns EXCEPT ![c] = 0]
    /\ flying' = [flying EXCEPT ![c] = 0]
    /\ header' = [header EXCEPT ![c] = NIL]
    /\ UNCHANGED <<config, exec, handling, t_att, t_delay>>

\* the loop condition and, when it holds, tryRequest up to the network call
LoopIter(c) ==
    /\ gpc[c] = "loop"
    /\ IF LoopCond(i[c])
       THEN IF BuildError(req[c]) # NIL
            THEN /\ res' = [res EXCEPT ![c] = NIL]
                 /\ err' = [err EXCEPT ![c] = BuildError(req[c])]
                 /\ answers' = [answers EXCEPT ![c] = Append(@, NoNetwork)]
                 /\ gpc' = [gpc EXCEPT ![c] = AfterAttempt(BuildError(req[c]))]
                 /\ UNCHANGED <<t_att, t_delay, flying, header>>
            ELSE /\ gpc' = [gpc EXCEPT ![c] = AfterDo]
                 /\ flying' = [flying EXCEPT ![c] = @ + 1]
                 /\ header' = [header EXCEPT ![c] = RequestHeader]
                 /\ t_att' = [t_att EXCEPT ![c] = 0]
                 /\ UNCHANGED <<res, err, answers, t_delay>>
       ELSE /\ gpc' = [gpc EXCEPT ![c] = "deliver"]
            /\ UNCHANGED <<res, err, answers, t_att, t_delay, flying, header>>
    /\ UNCHANGED <<config, exec, handling, httpclient, cpc, req, i, ret, t_call, delivered, returns>>

\* tryRequest returns p after the attempt met a; the loop body goes on
Returned(c, a, p) ==
    /\ res' = [res EXCEPT ![c] = p.Response]
    /\ err' = [err EXCEPT ![c] = p.Error]
    /\ answers' = [answers EXCEPT ![c] = Append(@, a)]
    /\ gpc' = [gpc EXCEPT ![c] = AfterAttempt(p.Error)]
    /\ t_att' = [t_att EXCEPT ![c] = 0]
    /\ flying' = [flying EXCEPT ![c] = @ - 1]
    /\ UNCHANGED header
    /\ UNCHANGED <<config, exec, handling, httpclient, cpc, req, i, ret, t_delay, t_call, delivered, returns>>

\* the remote answers the attempt in flight before its deadline
HttpResponse(c, resp) ==
    /\ gpc[c] = "inflight"
    /\ ~DeadlinePassed(c)
    /\ Returned(c, Answered(resp, t_att[c]), Classify(req[c], resp))

\* the transport fails the attempt in flight before its deadline
HttpError(c) ==
    /\ gpc[c] = "inflight"
    /\ ~DeadlinePassed(c)
    /\ Returned(c, Failed, Pair(NIL, TransportError))

\* the deadline of the attempt in flight passes: http.Client.Do gives up
HttpTimeout(c) ==
    /\ gpc[c] = "inflight"
    /\ DeadlinePassed(c)
    /\ Returned(c, TimedOut, Pair(NIL, TimeoutError))

\* mutant: after the 429 of the last iteration the wait is skipped
DelayOverUnlessLast(c) == LastIteration(i[c]) \/ t_delay[c] >= default_retry_interval

\* mutant: the receive from the ticker does not wait
DelayOverAtOnce(c) == TRUE

\* the ticker made by time.Tick(default_retry_interval) has sent its first
\* tick: a full interval after it was made
DelayOver(c) == t_delay[c] >= default_retry_interval

\* the wait on time.Tick(default_retry_interval) ends; the rest of the
\* RateLimitError case, the continue and the i++ of the loop
DelayDone(c) ==
    /\ gpc[c] = "delay"
    /\ DelayOver(c)
    /\ err' = [err EXCEPT ![c] = IF LastIteration(i[c]) THEN RateLimitExceededError ELSE @]
    /\ i' = [i EXCEPT ![c] = @ + 1]
    /\ gpc' = [gpc EXCEPT ![c] = "loop"]
    /\ t_delay' = [t_delay EXCEPT ![c] = 0]
    /\ UNCHANGED <<config, exec, handling, httpclient, cpc, req, res, ret, answers, t_att,
                   t_call, delivered, returns, flying, header>>

\* the goroutine of call g sends its result on the unbuffered channel
\* c.results and the caller of call w, waiting in the select, receives it and
\* returns it: one channel for all calls of the Client.  On a nil channel a
\* send and a receive block forever.
ChannelSend(g, w) ==
    /\ results # "nil"
    /\ gpc[g] = "deliver"
    /\ cpc[w] = "waiting"
    /\ ret' = [ret EXCEPT ![w] = ChannelResult(g)]
    /\ cpc' = [cpc EXCEPT ![w] = "returned"]
    /\ gpc' = [gpc EXCEPT ![g] = AfterChannelSend]
    /\ delivered' = [delivered EXCEPT ![g] = @ + 1]
    /\ returns' = [returns EXCEPT ![w] = @ + 1]
    /\ UNCHANGED <<config, exec, handling, httpclient, req, i, res, err, answers, timers,
                   flying, header>>

Running(c) == gpc[c] \in {"loop", "inflight", "delay"}

\* a unit of time passes for the timers of the program: none is overdue, and
\* some timer is running
Elapse ==
    /\ \E c \in Calls : gpc[c] \in {"inflight", "delay"}
    /\ \A c \in Calls :
          /\ gpc[c] = "inflight" => /\ ~DeadlinePassed(c)
                                    /\ t_att[c] < MaxLatency
          /\ gpc[c] = "delay" => t_delay[c] < default_retry_interval
    /\ t_att' = [c \in Calls |-> IF gpc[c] = "inflight" THEN t_att[c] + 1 ELSE t_att[c]]
    /\ t_delay' = [c \in Calls |-> IF gpc[c] = "delay" THEN t_delay[c] + 1 ELSE t_delay[c]]
    /\ UNCHANGED <<config, exec, handling, httpclient, cpc, gpc, req, i, res, err, ret, answers,
                   delivered, returns, flying, header>>

\* a unit of time passes, the time since send was called being measured
Tick ==
    /\ Elapse
    /\ t_call' = [c \in Calls |-> IF Running(c) /\ t_call[c] <= Timeout
                                  THEN t_call[c] + 1 ELSE t_call[c]]

\* time passes for call c until the timer it waits on is due: the deadline
\* of its attempt in flight, or the tick of time.Tick.  Calls are timed
\* independently of each other here, and the time since send was called is
\* not measured.
TimerDue(c) ==
    /\ \/ /\ gpc[c] = "inflight"
          /\ httpclient.Timeout # 0
          /\ ~DeadlinePassed(c)
          /\ t_att' = [t_att EXCEPT ![c] = httpclient.Timeout]
          /\ UNCHANGED t_delay
       \/ /\ gpc[c] = "delay"
          /\ t_delay[c] < default_retry_interval
          /\ t_delay' = [t_delay EXCEPT ![c] = default_retry_interval]
          /\ UNCHANGED t_att
    /\ UNCHANGED <<config, exec, handling, httpclient, cpc, gpc, req, i, res, err, ret, answers,
                   t_call, delivered, returns, flying, header>>

\* the steps of the retry goroutines that depend on no input
Internal ==
    \/ \E c \in Calls : LoopIter(c)
    \/ \E c \in Calls : HttpTimeout(c)
    \/ \E c \in Calls : DelayDone(c)
    \/ \E g \in Calls, w \in Calls : ChannelSend(g, w)

\* the requests and the answers of the calls that run concurrently: a request
\* that reaches the network and one that does not; a success and the rate
\* limit (and the deadline, which HttpTimeout brings)
ConcurrentRequests == { r \in Requests : r.Resource = "/check" /\ r.Data # "encodable" }
ConcurrentResponses ==
    { resp \in RemoteResponses :
        \/ resp.status = 429
        \/ resp.status = 200 /\ resp.body = "successJson" }

\* send calls made at any time, also while others are in progress
Next ==
    \/ \E c \in Calls, r \in ConcurrentRequests : send(c, r)
    \/ \E c \in Calls, resp \in ConcurrentResponses : HttpResponse(c, resp)
    \/ \E c \in Calls : TimerDue(c)
    \/ Internal

Spec == Init /\ [][Next]_vars

\* one application goroutine uses the Client: its send calls are made one
\* after the other, each when the one before has returned
NextSeq ==
    \/ \E r \in Requests : send(1, r)
    \/ \E c \in Calls, resp \in RemoteResponses : HttpResponse(c, resp)
    \/ \E c \in Calls : HttpError(c)
    \/ Tick
    \/ Internal

SpecSeq == Init /\ [][NextSeq]_vars

\* a first call of an application goroutine
sendOnce(c, r) == cpc[c] = "idle" /\ send(c, r)

NextOnce ==
    \/ \E c \in Calls, r \in ConcurrentRequests : sendOnce(c, r)
    \/ \E c \in Calls, resp \in ConcurrentResponses : HttpResponse(c, resp)
    \/ \E c \in Calls : TimerDue(c)
    \/ Internal

\* every goroutine that can take a step takes one, time passes, every attempt
\* in flight is answered or times out, and a caller waiting on the channel
\* receives when a goroutine is sending
GoroutineStep(c) ==
    \/ LoopIter(c)
    \/ \E resp \in ConcurrentResponses : HttpResponse(c, resp)
    \/ HttpTimeout(c)
    \/ TimerDue(c)
    \/ DelayDone(c)

Fairness ==
    \A c \in Calls :
        /\ WF_vars(GoroutineStep(c))
        /\ WF_vars(\E g \in Calls : ChannelSend(g, c))

\* a Client of NewClient without a deadline for its attempts, or with one:
\* TimerDue takes an attempt straight to its deadline, whatever its length
InitLive == Init /\ Timeout \in {0, MaxTimeout}

\* NumCalls application goroutines that each call send once, the calls
\* overlapping, with every attempt completing.
SpecLive == InitLive /\ [][NextOnce]_vars /\ Fairness

NextOne ==
    \/ \E r \in Requests : sendOnce(1, r)
    \/ \E c \in Calls, resp \in RemoteResponses : HttpResponse(c, resp)
    \/ \E c \in Calls : HttpError(c)
    \/ Tick
    \/ Internal

\* the goroutine of the call takes its steps, time passes, the attempt in
\* flight is answered, fails or times out, the caller receives
FairnessOne ==
    /\ WF_vars(LoopIter(1))
    /\ WF_vars(\E resp \in RemoteResponses : HttpResponse(1, resp))
    /\ WF_vars(HttpTimeout(1))
    /\ WF_vars(Tick)
    /\ WF_vars(DelayDone(1))
    /\ WF_vars(ChannelSend(1, 1))

\* One send call on a Client of NewClient, every attempt of it completing.
SpecOne == Init /\ [][NextOne]_vars /\ FairnessOne

\* the application assigns the exported field Timeout between two calls
SetTimeout(t) ==
    /\ cpc[1] \in {"idle", "returned"}
    /\ t # Timeout
    /\ Timeout' = t
    /\ UNCHANGED <<Retries, results, app, token, transport, call, handling, exec>>

\* the transports of the package and of the tests
Transports == {"Transport{}", "Transport{Proxy}"}

\* code of the package assigns the field transport between two calls, as
\* createClient of the tests does
SetTransport(tr) ==
    /\ cpc[1] \in {"idle", "returned"}
    /\ tr # transport
    /\ transport' = tr
    /\ UNCHANGED <<Retries, Timeout, results, app, token, call, handling, exec>>

NextCfg ==
    \/ NextSeq
    \/ \E t \in 0 .. MaxTimeout : SetTimeout(t)
    \/ \E tr \in Transports : SetTransport(tr)

\* One application goroutine that also changes the Timeout and the transport
\* of the Client between its calls.
SpecCfg == Init /\ [][NextCfg]_vars

\* One application goroutine on a Client that NewClient built or that is the
\* zero value of the type.
SpecAny == InitAny /\ [][NextSeq]_vars

(* ------------------------- reading the history -------------------------- *)

HasAnswer(c) == Len(answers[c]) > 0
Last(c) == answers[c][Len(answers[c])]

RateLimited(a) == a.kind = "response" /\ a.status = 429
Success(a) == a.kind = "response" /\ a.status = 200 /\ Decodes(a.body)

\* every attempt the call has made so far was answered 429
AllRateLimited(c) == \A n \in 1 .. Len(answers[c]) : RateLimited(answers[c][n])

\* every attempt but the last was answered 429
RateLimitedBeforeLast(c) == \A n \in 1 .. Len(answers[c]) - 1 : RateLimited(answers[c][n])

\* what tryRequest returns for an attempt of call c that met a
Outcome(c, a) ==
    CASE a.kind = "none" -> Pair(NIL, BuildError(req[c]))
      [] a.kind = "response" -> Classify(req[c], [status |-> a.status, body |-> a.body])
      [] a.kind = "transport" -> Pair(NIL, TransportError)
      [] a.kind = "timeout" -> Pair(NIL, TimeoutError)

\* the retry goroutine of the call has left its loop
LoopLeft(c) == gpc[c] \in {"deliver", "done"}

\* the method Error() of the error types
ErrorText(e) ==
    CASE e.type = "AccessDeniedError" -> "Access denied"
      [] e.type = "CirconusError" -> e.Explanation
      [] e.type = "EmptyResponseError" -> "Empty response from Circonus"
      [] e.type = "MalformedResponseError" -> "Malformed JSON response from Circonus"
      [] e.type = "RateLimitError" -> "Request was rate limited"
      [] e.type = "RateLimitExceededError" ->
            "Request exceeded rate limit and exhausted retries"
      [] e.type = "RequestDataError" -> "Cannot encode request data"
      [] e.type = "ResourceNotFoundError" ->
            "Circonus endpoint \"" \o e.Endpoint \o "\" not found"
      [] e.type = "TokenNotValidatedError" -> "Invalid authentication token"

(* ------------------- tryRequest, from the response on ------------------- *)

\* the requests tryRequest hands to the HTTP client
HandledRequests ==
    { r \in Requests : BuildError(r) = NIL }
    \cup { [Method |-> "GET", Resource |-> "/user", Data |-> "nil"] }

\* mutant: the body is closed after the decoding only
ClosedOnReturnAfterDecode(path) == path = "decode"

\* the deferred res.Body.Close() runs when tryRequest returns, whichever
\* return statement it is: that of the switch or one after the decoding
ClosedOnReturn(path) == TRUE

\* http.Client.Do returns the response resp to the request r: the closing of
\* the body is deferred, the decoder is made, nothing is read yet
Respond(r, resp) ==
    /\ handling.pc \in {"none", "done"}
    /\ handling' = [pc |-> "switch", r |-> r, resp |-> resp, decoded |-> FALSE,
                    closed |-> FALSE, out |-> NIL]
    /\ UNCHANGED <<config, call, exec>>

\* the test of the status and the switch: for the statuses of the switch
\* tryRequest returns; for the others it goes on to decode the body
StatusSwitch ==
    /\ handling.pc = "switch"
    /\ handling' = IF StatusOnly(handling.resp.status)
                   THEN [handling EXCEPT !.pc = "done", !.closed = ClosedOnReturn("switch"),
                                         !.out = Classify(handling.r, handling.resp)]
                   ELSE [handling EXCEPT !.pc = "decode"]
    /\ UNCHANGED <<config, call, exec>>

\* decoder.Decode reads the body, into a CirconusError or into the response
\* value, and tryRequest returns
Decode ==
    /\ handling.pc = "decode"
    /\ handling' = [handling EXCEPT !.pc = "done", !.decoded = TRUE,
                                    !.closed = ClosedOnReturn("decode"),
                                    !.out = Classify(handling.r, handling.resp)]
    /\ UNCHANGED <<config, call, exec>>

NextClassify ==
    \/ \E r \in HandledRequests, resp \in ExecResponses : Respond(r, resp)
    \/ StatusSwitch
    \/ Decode

\* tryRequest from the response on, for every status and body
SpecClassify == Init /\ [][NextClassify]_vars

(* --------------------------- executeRequest ----------------------------- *)

\* executeRequest of the version of the client that bounds an attempt with a
\* context (unnamed/part_000): tryRequest builds the context from
\* Client.Timeout (no deadline when it is zero) and calls executeRequest
\* with the request and the response handler.

\* ctx.Err() once the deadline of the context has passed
ContextError == [type |-> "context.DeadlineExceeded"]

\* the error of client.Do for a request cancelled on the transport
CanceledError == [type |-> "url.Error", Op |-> "canceled"]

\* what client.Do(req) returns: a response or an error
DoResult(resp, e) == [res |-> resp, err |-> e]

\* the request the handler closes over
ExecRequest == [Method |-> "GET", Resource |-> "/check", Data |-> "nil"]

\* the error the response handler of tryRequest returns
resHandler(r, d) ==
    IF d.err # NIL
    THEN d.err
    ELSE IF d.res.status > 399
         THEN IF d.res.status = 404
              THEN ResourceNotFoundError(r.Resource)
              ELSE IF d.res.status = 429
                   THEN RateLimitError
                   ELSE IF Decodes(d.res.body)
                        THEN CirconusError(d.res.body)
                        ELSE MalformedResponseError(DecodeError(d.res.body))
         ELSE IF Decodes(d.res.body)
              THEN NIL
              ELSE IF DecodeError(d.res.body) = "EOF"
                   THEN EmptyResponseError
                   ELSE MalformedResponseError(DecodeError(d.res.body))

\* mutant: after cancelling the request executeRequest returns at once
AfterCancelRequestNoWait == "returned"

\* where executeRequest is after tr.CancelRequest(req): at the receive from
\* echannel that waits for the handler to return
AfterCancelRequest == "drain"

\* executeRequest up to the select: the channel is made, the goroutine is
\* started.  A new call is made when the one before has returned (and, to
\* keep one goroutine in the model, when its goroutine has exited).
executeRequest ==
    /\ epc \in {"idle", "returned"}
    /\ wpc \in {"none", "exited"}
    /\ epc' = "select"
    /\ wpc' = "do"
    /\ echannel' = << >>
    /\ ctxdone' = FALSE
    /\ cancelled' = FALSE
    /\ dores' = NIL
    /\ eret' = NIL
    /\ first' = "none"
    /\ UNCHANGED <<config, call, handling>>

\* client.Do returns the answer of the remote to the goroutine (also when
\* the answer arrives just as the request is being cancelled)
DoReturns(resp) ==
    /\ wpc = "do"
    /\ dores' = DoResult(resp, NIL)
    /\ wpc' = "fn"
    /\ UNCHANGED <<config, call, handling, epc, echannel, ctxdone, cancelled, eret, first>>

\* client.Do returns an error: of the transport, or that of the cancelled
\* request
DoFails ==
    /\ wpc = "do"
    /\ dores' = DoResult(NIL, IF cancelled THEN CanceledError ELSE TransportError)
    /\ wpc' = "fn"
    /\ UNCHANGED <<config, call, handling, epc, echannel, ctxdone, cancelled, eret, first>>

\* the goroutine runs the handler, sends its error on echannel and exits
WorkerSend ==
    /\ wpc = "fn"
    /\ Len(echannel) < 1
    /\ echannel' = Append(echannel, resHandler(ExecRequest, dores))
    /\ wpc' = "exited"
    /\ first' = IF first = "none" THEN "result" ELSE first
    /\ UNCHANGED <<config, call, handling, epc, ctxdone, cancelled, dores, eret>>

\* the deadline of the context passes while executeRequest is in its select
Deadline ==
    /\ Timeout # 0
    /\ epc = "select"
    /\ ~ctxdone
    /\ ctxdone' = TRUE
    /\ first' = IF first = "none" THEN "deadline" ELSE first
    /\ UNCHANGED <<config, call, handling, epc, wpc, echannel, cancelled, dores, eret>>

\* case <-ctx.Done(): the request is cancelled on the transport; the error
\* to return is ctx.Err()
SelectDone ==
    /\ epc = "select"
    /\ ctxdone
    /\ cancelled' = TRUE
    /\ eret' = ContextError
    /\ epc' = AfterCancelRequest
    /\ UNCHANGED <<config, call, handling, wpc, echannel, ctxdone, dores, first>>

\* <-echannel after the cancellation: the error of the handler is dropped
Drain ==
    /\ epc = "drain"
    /\ echannel # << >>
    /\ echannel' = Tail(echannel)
    /\ epc' = "returned"
    /\ UNCHANGED <<config, call, handling, wpc, ctxdone, cancelled, dores, eret, first>>

\* case err := <-echannel: the error of the handler is returned.  When the
\* context is done as well, select takes either case.
SelectResult ==
    /\ epc = "select"
    /\ echannel # << >>
    /\ eret' = Head(echannel)
    /\ echannel' = Tail(echannel)
    /\ epc' = "returned"
    /\ UNCHANGED <<config, call, handling, wpc, ctxdone, cancelled, dores, first>>

NextExec ==
    \/ executeRequest
    \/ \E resp \in ExecResponses : DoReturns(resp)
    \/ DoFails
    \/ WorkerSend
    \/ Deadline
    \/ SelectDone
    \/ Drain
    \/ SelectResult

\* Calls of executeRequest, one after the other, on a Client of NewClient.
SpecExec == Init /\ [][NextExec]_vars

(* -------------------------------- claims -------------------------------- *)

\* C1: every send call produces exactly one outcome: its retry goroutine
\* sends exactly one result on the channel (none before it has left the loop,
\* one once it has finished, never two), send returns exactly once, and every
\* result sent is returned by exactly one send call, none being lost -- also
\* when calls run concurrently and when an attempt times out after a retry.
C1_ExactlyOneOutcome ==
    /\ \A c \in Calls :
          /\ delivered[c] = (IF gpc[c] = "done" THEN 1 ELSE 0)
          /\ returns[c] = (IF cpc[c] = "returned" THEN 1 ELSE 0)
          /\ cpc[c] = "returned" => ret[c] # NIL
    /\ Cardinality({c \in Calls : delivered[c] = 1})
          = Cardinality({c \in Calls : returns[c] = 1})

\* C1 witness: two calls have overlapped, one of them timed out on its
\* second attempt, and both have their one outcome
C1_Witness ==
    /\ \A c \in Calls : delivered[c] = 1 /\ returns[c] = 1
    /\ \E c \in Calls :
          /\ Len(answers[c]) = 2
          /\ RateLimited(answers[c][1])
          /\ Last(c) = TimedOut
          /\ ret[c] # ChannelResult(c)

\* C2: a send call returns the outcome its own retry goroutine produced,
\* never the one produced for another call.
C2_OwnOutcome ==
    \A c \in Calls :
        (cpc[c] = "returned" /\ LoopLeft(c)) => ret[c] = ChannelResult(c)

\* C3: after K >= 1 attempts answered 429, with Retries >= K, the call goes
\* on to a further attempt (it does not give up), and when that attempt is
\* answered 200 send returns the value decoded from that body.
C3_SucceedsAfterKRateLimits ==
    \A c \in Calls :
        /\ (HasAnswer(c) /\ AllRateLimited(c) /\ Retries >= Len(answers[c]))
              => ~LoopLeft(c)
        /\ (HasAnswer(c) /\ RateLimitedBeforeLast(c) /\ Success(Last(c))
              /\ cpc[c] = "returned")
              => ret[c] = Pair(DecodedValue(Last(c).body), NIL)

\* C4: RateLimitExceededError is the result only after Retries + 1 attempts,
\* that is after Retries retries of the initial attempt.
C4_RetriesAfterInitialAttempt ==
    \A c \in Calls :
        err[c] = RateLimitExceededError => Len(answers[c]) = Retries + 1

\* C5: for Retries >= 0, a call whose attempts the remote answers 429, every
\* one of them, returns RateLimitExceededError and no value.
C5_ExceededWhenAllRateLimited ==
    \A c \in Calls :
        (Retries >= 0 /\ cpc[c] = "returned" /\ AllRateLimited(c))
            => ret[c] = Pair(NIL, RateLimitExceededError)

\* C6: an attempt whose outcome is not RateLimitError ends the call: the
\* goroutine neither waits nor makes a further attempt, its result is that
\* outcome, and send returns that outcome unchanged.
C6_OtherOutcomeEndsCall ==
    \A c \in Calls :
        (HasAnswer(c) /\ Outcome(c, Last(c)).Error # RateLimitError)
            => /\ LoopLeft(c)
               /\ ChannelResult(c) = Outcome(c, Last(c))
               /\ cpc[c] = "returned" => ret[c] = Outcome(c, Last(c))

\* C6 witness: a call was rate limited, then answered 404, and has returned
C6_Witness ==
    \E c \in Calls :
        /\ cpc[c] = "returned"
        /\ Len(answers[c]) = 2
        /\ RateLimited(answers[c][1])
        /\ Last(c).kind = "response" /\ Last(c).status = 404
        /\ ret[c] = Pair(NIL, ResourceNotFoundError(req[c].Resource))

\* C7: send never returns RateLimitError: a 429 is followed by a further
\* attempt or the call ends with RateLimitExceededError.
C7_RateLimitErrorInternal ==
    \A c \in Calls :
        /\ cpc[c] = "returned" => ret[c].Error # RateLimitError
        /\ LoopLeft(c) => ChannelResult(c).Error # RateLimitError
        /\ (LoopLeft(c) /\ HasAnswer(c) /\ RateLimited(Last(c)))
              => ChannelResult(c) = Pair(NIL, RateLimitExceededError)

\* C7 witness: a call has returned RateLimitExceededError after two attempts
\* answered 429
C7_Witness ==
    \E c \in Calls :
        /\ cpc[c] = "returned"
        /\ Len(answers[c]) = 2
        /\ AllRateLimited(c)
        /\ ret[c] = Pair(NIL, RateLimitExceededError)

C11_UnencodableBody ==
    \A c \in Calls :
        (cpc[c] = "returned" /\ req[c].Data = "unencodable")
            => /\ ret[c] = Pair(NIL, RequestDataError("json: unsupported type"))
               /\ answers[c] = << NoNetwork >>

\* C12: with Retries = 0 send still makes the initial attempt and returns
\* what that attempt gave (RateLimitExceededError for a 429); it never
\* returns without an attempt.
C12_ZeroRetriesStillAttempts ==
    \A c \in Calls :
        (Retries = 0 /\ cpc[c] = "returned")
            => /\ Len(answers[c]) = 1
               /\ ret[c] = (IF RateLimited(Last(c))
                            THEN Pair(NIL, RateLimitExceededError)
                            ELSE Outcome(c, Last(c)))

\* C13: the zero value of Client is usable: a send call on it makes its
\* attempt like a call on a Client with the defaults, and while the call is
\* under way the program can always take a step (the call is never blocked
\* for good).
C13_ZeroValueUsable ==
    results = "nil" =>
        \A c \in Calls :
            /\ LoopLeft(c) => HasAnswer(c)
            /\ cpc[c] = "waiting" => ENABLED NextSeq

\* C14: within one send call at most one HTTP attempt is in flight at any
\* time: while the loop is at its head, in the delay between attempts or
\* past its end, no attempt of the call is in flight, so the next attempt
\* starts only when the one before has returned.
C14_OneAttemptInFlight ==
    \A c \in Calls :
        /\ flying[c] <= 1
        /\ gpc[c] # "inflight" => flying[c] = 0

\* C14 witness: the second attempt of a call is in flight, after the first
\* one was answered 429 and the delay has passed
C14_Witness ==
    \E c \in Calls :
        /\ Len(answers[c]) = 1
        /\ RateLimited(answers[c][1])
        /\ gpc[c] = "inflight"
        /\ flying[c] = 1

\* C15: when a send call has returned, the retry goroutine it started has
\* left its loop and delivered its result: no attempt and no delay of the
\* call is still in progress, also when calls overlap on the Client.
C15_GoroutineFinishedOnReturn ==
    \A c \in Calls :
        cpc[c] = "returned" => (gpc[c] = "done" /\ flying[c] = 0)

\* C16: send leaves the state shared by the calls on a Client unchanged: the
\* configuration, the channel and the HTTP handle are never written after
\* construction.
C16_SharedStateReadOnly ==
    [][UNCHANGED <<Retries, Timeout, results, httpclient>>]_vars

\* C17: executeRequest returns the error of the context only after it has
\* cancelled the request on the transport and received the result of the
\* goroutine it started; whichever case its select takes, when it has
\* returned that goroutine has sent its result and exited.
C17_WaitsForWorker ==
    /\ epc = "returned" => (wpc = "exited" /\ echannel = << >>)
    /\ epc = "drain" => (ctxdone /\ cancelled)
    /\ (epc = "returned" /\ eret = ContextError) => (ctxdone /\ cancelled)
    /\ cancelled => ctxdone

\* C17 witness: the deadline passed while the request was in flight, the
\* request was cancelled, client.Do returned the cancellation to the
\* goroutine, and executeRequest has returned the error of the context
C17_Witness ==
    /\ epc = "returned"
    /\ eret = ContextError
    /\ cancelled
    /\ wpc = "exited"
    /\ dores = DoResult(NIL, CanceledError)

Handled == handling.pc = "done"

\* C18: a response with status 401, 403, 404 or 429 is classified from the
\* status alone, whatever its body, and the body is not decoded: 401 gives
\* TokenNotValidatedError, 403 AccessDeniedError, 404 ResourceNotFoundError
\* with the resource of the request as Endpoint, 429 RateLimitError.
C18_StatusAlone ==
    (Handled /\ handling.resp.status \in {401, 403, 404, 429})
        => /\ ~handling.decoded
           /\ handling.out =
                 Pair(NIL, CASE handling.resp.status = 401 -> TokenNotValidatedError
                             [] handling.resp.status = 403 -> AccessDeniedError
                             [] handling.resp.status = 404 ->
                                   ResourceNotFoundError(handling.r.Resource)
                             [] handling.resp.status = 429 -> RateLimitError)

\* C18 witness: a 403 with a JSON body for the resource /user has been
\* classified
C18_Witness ==
    /\ Handled
    /\ handling.resp = [status |-> 403, body |-> "circonusErrorJson"]
    /\ handling.r.Resource = "/user"
    /\ handling.out = Pair(NIL, AccessDeniedError)

\* C19: for a status below 400, a blank body gives EmptyResponseError, a
\* body that is valid JSON gives the decoded value, and every other body
\* gives MalformedResponseError with the reason of the decoder.
C19_SuccessBodies ==
    (Handled /\ handling.resp.status < 400)
        => handling.out =
              (IF Blank(handling.resp.body)
               THEN Pair(NIL, EmptyResponseError)
               ELSE IF IsJSON(handling.resp.body)
                    THEN Pair(DecodedValue(handling.resp.body), NIL)
                    ELSE Pair(NIL, MalformedResponseError(DecodeError(handling.resp.body))))

C21_ServiceError ==
    (Handled /\ handling.resp.status >= 400
        /\ handling.resp.status \notin {401, 403, 404, 429})
        => /\ handling.out.Response = NIL
           /\ IF Decodes(handling.resp.body)
              THEN /\ handling.out.Error.type = "CirconusError"
                   /\ handling.out.Error.Code = JSONField(handling.resp.body, "code")
                   /\ handling.out.Error.Explanation
                         = JSONField(handling.resp.body, "explanation")
                   /\ handling.out.Error.Message = JSONField(handling.resp.body, "message")
                   /\ handling.out.Error.Reference
                         = JSONField(handling.resp.body, "reference")
                   /\ handling.out.Error.Tag = JSONField(handling.resp.body, "tag")
                   /\ handling.out.Error.Server = JSONField(handling.resp.body, "server")
                   /\ ErrorText(handling.out.Error)
                         = JSONField(handling.resp.body, "explanation")
              ELSE handling.out.Error.type = "MalformedResponseError"

\* C21 witness: the service error of the test server has come with a 500
\* and has been returned with its fields
C21_Witness ==
    /\ Handled
    /\ handling.resp = [status |-> 500, body |-> "circonusErrorJson"]
    /\ handling.out.Error.type = "CirconusError"
    /\ handling.out.Error.Server = "test"
    /\ ErrorText(handling.out.Error) = "Intential error"

\* C22: an attempt of a call is started only when every attempt of the call
\* before it, the preceding one in particular, was answered 429; the delay
\* after a 429 is left only when a full default_retry_interval has passed
\* since that answer; the attempt counter of a call changes only by the
\* increment of one that ends each delay.
C22_RetryAfterFullDelay ==
    [][\A c \in Calls :
          /\ (gpc[c] = "loop" /\ gpc'[c] # "loop" /\ LoopCond(i[c]))
                => (AllRateLimited(c) /\ i[c] = Len(answers[c]))
          /\ (gpc[c] = "delay" /\ gpc'[c] # "delay")
                => (t_delay[c] >= default_retry_interval /\ RateLimited(Last(c)))
          /\ i'[c] # i[c]
                => \/ gpc[c] = "delay" /\ i'[c] = i[c] + 1
                   \/ gpc[c] \in {"none", "done"} /\ i'[c] = 0
      ]_vars

\* C22 witness: the second attempt of a call is under way with the counter
\* at one, the first attempt having been answered 429
C22_Witness ==
    \E c \in Calls :
        /\ i[c] = 1
        /\ gpc[c] = "inflight"
        /\ answers[c] = << Answered([status |-> 429, body |-> "circonusErrorJson"], 0) >>

\* C23: every HTTP attempt of a send call, the first and the retries, is
\* made with a request that carries Accept: application/json, Content-Type:
\* application/json, X-Circonus-App-Name with the application name of the
\* Client and X-Circonus-Auth-Token with its access token.
C23_HeadersOnEveryAttempt ==
    \A c \in Calls :
        flying[c] > 0
            => header[c] = [Accept |-> "application/json",
                            ContentType |-> "application/json",
                            XCirconusAppName |-> app,
                            XCirconusAuthToken |-> token]

\* C23 witness: the retry of a call rate limited once is in flight with the
\* headers of the Client of the tests
C23_Witness ==
    \E c \in Calls :
        /\ Len(answers[c]) = 1
        /\ flying[c] = 1
        /\ header[c].XCirconusAppName = "sampleapp"
        /\ header[c].XCirconusAuthToken = "abc123"

\* C24: when tryRequest has returned from an attempt that received a
\* response, the body of the response is closed, whatever the path: status
\* error, service error, empty body, malformed body or success; it is not
\* closed before tryRequest has read what it reads.
C24_BodyClosed ==
    /\ Handled => handling.closed
    /\ handling.pc \in {"switch", "decode"} => ~handling.closed

\* C24 witness: tryRequest has returned AccessDeniedError from the switch
\* and the body is closed
C24_Witness ==
    /\ Handled
    /\ handling.resp.status = 403
    /\ handling.out = Pair(NIL, AccessDeniedError)
    /\ ~handling.decoded
    /\ handling.closed

\* C25: when the goroutine has put the result of the attempt on echannel
\* before the deadline of the context passes, executeRequest returns that
\* result and not the error of the context, however the goroutine, the
\* timer and the select are interleaved.
C25_FirstResolvedWins ==
    (epc = "returned" /\ first = "result")
        => (eret = resHandler(ExecRequest, dores) /\ eret # ContextError)

\* C26: every 429 answer is followed by one full default_retry_interval of
\* waiting, that of the last iteration too: the error of a call becomes
\* RateLimitExceededError only at the end of the delay that follows the 429
\* of the last iteration, when the full interval has passed, and send returns
\* it after that.
C26_DelayAfterLastRateLimit ==
    [][\A c \in Calls :
          /\ (Len(answers'[c]) = Len(answers[c]) + 1
                 /\ RateLimited(answers'[c][Len(answers'[c])]))
                => (gpc'[c] = "delay" /\ t_delay'[c] = 0)
          /\ (err'[c] = RateLimitExceededError /\ err[c] # RateLimitExceededError)
                => /\ gpc[c] = "delay"
                   /\ RateLimited(Last(c))
                   /\ LastIteration(i[c])
                   /\ t_delay[c] >= default_retry_interval
          /\ (cpc'[c] = "returned" /\ cpc[c] # "returned"
                 /\ ret'[c].Error = RateLimitExceededError)
                => \E g \in Calls : gpc[g] = "deliver" /\ err[g] = RateLimitExceededError
      ]_vars

\* C26 witness: with Retries = 2 both attempts of a call were answered 429,
\* the second delay has passed and send has returned RateLimitExceededError
C26_Witness ==
    \E c \in Calls :
        /\ Retries = 2
        /\ cpc[c] = "returned"
        /\ ret[c] = Pair(NIL, RateLimitExceededError)
        /\ Len(answers[c]) = 2
        /\ AllRateLimited(c)
        /\ i[c] = 2

\* C27: the first send on a Client creates the HTTP client from the Timeout
\* and the transport the Client has at that moment; every later send keeps
\* it, and attempts time out by its Timeout: a later change of
\* Client.Timeout or of the transport has no effect.
C27_HttpClientCached ==
    [][/\ (httpclient = NIL /\ httpclient' # NIL)
            => httpclient' = [Timeout |-> Timeout, Transport |-> transport]
       /\ httpclient # NIL => httpclient' = httpclient
       /\ \A c \in Calls :
             /\ (gpc[c] # "inflight" /\ gpc'[c] = "inflight") => httpclient # NIL
             /\ (Len(answers'[c]) = Len(answers[c]) + 1
                    /\ answers'[c][Len(answers'[c])] = TimedOut)
                   => (httpclient.Timeout # 0 /\ t_att[c] >= httpclient.Timeout)
             /\ (gpc[c] = "inflight" /\ httpclient.Timeout # 0)
                   => t_att[c] <= httpclient.Timeout
      ]_vars

\* C27 witness: after the first send the Timeout of the Client was set to
\* zero and the transport was changed; an attempt of a later call has timed
\* out all the same, by the Timeout of the HTTP client of the first send
C27_Witness ==
    /\ Timeout = 0
    /\ httpclient # NIL
    /\ httpclient.Timeout = 1
    /\ httpclient.Transport # transport
    /\ HasAnswer(1)
    /\ Last(1) = TimedOut

\* C28: send never returns a value together with an error: when the error
\* it returns is not nil the value is nil, also for RateLimitExceededError
\* after rate limited attempts and for an error that follows earlier
\* attempts of the call; the same holds of the pair the retry goroutine
\* holds after each attempt.
C28_NoValueWithError ==
    \A c \in Calls :
        /\ err[c] # NIL => res[c] = NIL
        /\ (cpc[c] = "returned" /\ ret[c].Error # NIL) => ret[c].Response = NIL

\* C28 witness: a call was rate limited, its second attempt was answered 200
\* with text that is not JSON, and send has returned the error with a nil
\* value
C28_Witness ==
    \E c \in Calls :
        /\ cpc[c] = "returned"
        /\ Len(answers[c]) = 2
        /\ RateLimited(answers[c][1])
        /\ Last(c).kind = "response" /\ Last(c).status = 200
        /\ ret[c] = Pair(NIL, MalformedResponseError("invalid character"))

\* C29: with send calls running concurrently on a Client of NewClient and
\* every attempt completing, every call that was made returns: no caller
\* waits on the channel forever, and no retry goroutine stays short of
\* having sent its result.
C29_AllCallsReturn ==
    \A c \in Calls :
        (cpc[c] = "waiting" \/ gpc[c] \in {"loop", "inflight", "delay", "deliver"})
            ~> (cpc[c] = "returned" /\ gpc[c] = "done")

\* C29 witness: all the calls have overlapped and returned, none with the
\* result of its own goroutine, and all goroutines have finished
C29_Witness ==
    /\ \A c \in Calls : cpc[c] = "returned" /\ gpc[c] = "done"
    /\ \A c \in Calls : ret[c] # ChannelResult(c)

\* the attempts a call has started: those that have returned and the one in
\* flight
Attempts(c) == Len(answers[c]) + flying[c]

====
